---- MODULE Spec2Model ----
(***************************************************************************)
(* Project Odysseus market-data pipeline (src/data_module.py) with the     *)
(* price_data table of src/alembic/002_create_market_data_tables.py.       *)
(*                                                                         *)
(* Units.  Exchange timestamps are milliseconds; a datetime is a number of *)
(* seconds; a timedelta is a number of seconds.  Prices and volumes are    *)
(* integers in a fixed unit (PriceUnit per currency unit) chosen so that   *)
(* every ratio i/(gap_count+1) with gap_count <= max_interpolation_gap     *)
(* divides the differences exactly; floating-point rounding is not         *)
(* modelled.  None is the absent value of an Optional field.               *)
(***************************************************************************)
EXTENDS Integers, Sequences, FiniteSets, TLC

VARIABLES
    pc,                \* position of the running coroutine / call
    symbols,           \* collect_and_store_data: the symbol list of the tick
    idx,               \* collect_and_store_data: position of the for loop (1-based)
    results,           \* collect_and_store_data: results dict (symbol -> count or -1)
    quality_metrics,   \* DataHandler.quality_metrics (symbol -> DataQualityMetrics)
    market_data_list,  \* value returned by fetch_realtime_data
    validated_data,    \* argument handed to insert_market_data
    gap_log,           \* expected_gaps of the large gaps logged by the last validation
    insertRes,         \* how the last insert_market_data call ended
    store,             \* rows of market_data.price_data
    now,               \* the database clock NOW()
    attempt,           \* fetch_ohlcv_with_retry: loop variable
    calls,             \* exchange.fetch_ohlcv invocations of the current fetch
    sleeps,            \* delays passed to asyncio.sleep in the current fetch
    lastOutcome,       \* what the last exchange.fetch_ohlcv invocation produced
    transientOnly,     \* every failure of the current fetch was NetworkError or rate limit
    fetchRes,          \* how fetch_ohlcv_with_retry ended
    fetched,           \* per symbol of the tick: how its fetch ended
    dbFault,           \* per symbol of the tick: whether its insert met a store fault
    ticks,             \* collection ticks started
    inserts,           \* direct insert_market_data calls made
    backfills,         \* fetch_historical_data calls made
    args,              \* the running call: its function and arguments
    ret                \* how the last call of args.fn ended

fetchVars == <<attempt, calls, sleeps, lastOutcome, transientOnly, fetchRes>>
tickVars == <<symbols, idx, results, quality_metrics, market_data_list, fetched, dbFault, ticks>>
dbVars == <<store, now>>
vars == <<pc, symbols, idx, results, quality_metrics, market_data_list, validated_data,
          gap_log, insertRes, store, now, attempt, calls, sleeps, lastOutcome, transientOnly,
          fetchRes, fetched, dbFault, ticks, inserts, backfills, args, ret>>

----------------------------------------------------------------------------
(* Bounds of the model *)

MaxTicks == 2
MaxInserts == 2
MaxSlot == 3
MaxDirectBatch == 2
MaxBackfills == 1
MaxCount == 3
MaxList == 3

(* Program constants *)

None == -1
max_retries == 5
base_delay == 1
max_delay == 60
max_interpolation_gap == 5
\* lcm of the denominators 2..6 of the interpolation ratios
PriceUnit == 3 * 4 * 5

Max(a, b) == IF a >= b THEN a ELSE b
Min(a, b) == IF a <= b THEN a ELSE b
Abs(a) == IF a >= 0 THEN a ELSE 0 - a

EmptyMap == [x \in {} |-> 0]
Put(f, k, v) == [x \in (DOMAIN f) \cup {k} |-> IF x = k THEN v ELSE f[x]]

----------------------------------------------------------------------------
(* MarketData *)

\* MarketData(...) with the optional fields left at their defaults
MarketData(symbol, timeframe, timestamp, o, h, l, c, v, source, interpolated) ==
    [symbol |-> symbol, timeframe |-> timeframe, timestamp |-> timestamp,
     open |-> o, high |-> h, low |-> l, close |-> c, volume |-> v,
     quote_volume |-> None, trades_count |-> None,
     taker_buy_volume |-> None, taker_buy_quote_volume |-> None,
     data_source |-> source, is_interpolated |-> interpolated]

\* __post_init__ accepts the record (raises no ValueError)
PostInitAcceptsAll(d) == TRUE
PostInitOk(d) ==
    /\ d.open > 0 /\ d.high > 0 /\ d.low > 0 /\ d.close > 0
    /\ d.high >= Max(d.open, d.close) /\ d.low <= Min(d.open, d.close)
    /\ ~(d.volume < 0)

----------------------------------------------------------------------------
(* ExchangeAPIManager.convert_ohlcv_to_market_data *)

\* datetime.fromtimestamp(ms / 1000), in whole seconds
FromTimestamp(ms) == ms \div 1000

\* One iteration of the for loop.  A raw tuple is [kind, ts, o, h, l, c, v]:
\*   "ok"    six numeric fields;
\*   "short" fewer than six fields (IndexError, caught);
\*   "text"  a field float() cannot parse (ValueError, caught);
\*   "null"  a None field (TypeError, which the except clause does not catch).
ConvertOne(ohlcv, symbol, timeframe) ==
    CASE ohlcv.kind = "null" -> [status |-> "raise", data |-> <<>>]
      [] ohlcv.kind \in {"short", "text"} -> [status |-> "skip", data |-> <<>>]
      [] OTHER ->
           LET d == MarketData(symbol, timeframe, FromTimestamp(ohlcv.ts),
                               ohlcv.o, ohlcv.h, ohlcv.l, ohlcv.c, ohlcv.v, "api", FALSE)
           IN IF PostInitOk(d) THEN [status |-> "ok", data |-> <<d>>]
              ELSE [status |-> "skip", data |-> <<>>]

RECURSIVE ConvertFrom(_, _, _, _, _)
ConvertFrom(ohlcv_list, i, symbol, timeframe, acc) ==
    IF i > Len(ohlcv_list) THEN [raised |-> FALSE, err |-> "", data |-> acc]
    ELSE LET r == ConvertOne(ohlcv_list[i], symbol, timeframe)
         IN IF r.status = "raise" THEN [raised |-> TRUE, err |-> "TypeError", data |-> <<>>]
            ELSE ConvertFrom(ohlcv_list, i + 1, symbol, timeframe, acc \o r.data)

convert_ohlcv_to_market_data(ohlcv_list, symbol, timeframe) ==
    ConvertFrom(ohlcv_list, 1, symbol, timeframe, <<>>)

----------------------------------------------------------------------------
(* DataValidator *)

\* _get_timeframe_minutes
TimeframeMinutes(timeframe) ==
    CASE timeframe = "1m" -> 1
      [] timeframe = "5m" -> 5
      [] timeframe = "15m" -> 15
      [] timeframe = "30m" -> 30
      [] timeframe = "1h" -> 60
      [] timeframe = "2h" -> 120
      [] timeframe = "4h" -> 240
      [] timeframe = "6h" -> 360
      [] timeframe = "12h" -> 720
      [] timeframe = "1d" -> 1440
      [] OTHER -> 60

\* The attributes of settings.data_collection (a DataCollectionSettings instance)
DataCollectionSettingsFields ==
    {"validation_policy", "historical_data_start", "historical_timeframes",
     "default_timeframe", "realtime_data_interval", "websocket_timeout",
     "max_price_deviation", "max_missing_data_ratio"}

\* DataCollectionSettings.validation_policy (its default)
validation_policy == "interpolate"

\* The test  self.validation_policy == settings.data_collection.DataValidationPolicy.INTERPOLATE :
\* DataValidationPolicy is a class of module config, not an attribute of the
\* settings object, so evaluating the right-hand side raises AttributeError.
PolicyCheck ==
    IF "DataValidationPolicy" \in DataCollectionSettingsFields
    THEN [raised |-> FALSE, value |-> (validation_policy = "interpolate")]
    ELSE [raised |-> TRUE, value |-> FALSE]

\* int(time_diff_minutes / expected_interval) - 1, for a timedelta of diff seconds
ExpectedGaps(diff, expected_interval) ==
    IF diff >= 0 THEN (diff \div (60 * expected_interval)) - 1
    ELSE 0 - ((0 - diff) \div (60 * expected_interval)) - 1

\* The i-th candle built by _interpolate_data (ratio = i / (gap_count + 1))
InterpolatedPointOnGrid(start_data, end_data, gap_count, i) ==
    LET n == gap_count + 1
        lerp(a, b) == a + ((b - a) * i) \div n
    IN MarketData(start_data.symbol, start_data.timeframe,
                  start_data.timestamp + 60 * TimeframeMinutes(start_data.timeframe) * i,
                  lerp(start_data.close, end_data.open),
                  Max(start_data.close, end_data.open)
                      + (Abs(start_data.high - end_data.high) * i) \div n,
                  Min(start_data.close, end_data.open)
                      - (Abs(start_data.low - end_data.low) * i) \div n,
                  lerp(start_data.close, end_data.close),
                  lerp(start_data.volume, end_data.volume),
                  "interpolation", TRUE)
InterpolatedPoint(start_data, end_data, gap_count, i) ==
    LET n == gap_count + 1
        time_delta == (end_data.timestamp - start_data.timestamp) \div n
        lerp(a, b) == a + ((b - a) * i) \div n
    IN MarketData(start_data.symbol, start_data.timeframe,
                  start_data.timestamp + time_delta * i,
                  lerp(start_data.close, end_data.open),
                  Max(start_data.close, end_data.open)
                      + (Abs(start_data.high - end_data.high) * i) \div n,
                  Min(start_data.close, end_data.open)
                      - (Abs(start_data.low - end_data.low) * i) \div n,
                  lerp(start_data.close, end_data.close),
                  lerp(start_data.volume, end_data.volume),
                  "interpolation", TRUE)

RECURSIVE InterpolateFrom(_, _, _, _, _)
InterpolateFrom(start_data, end_data, gap_count, i, acc) ==
    IF i > gap_count THEN [raised |-> FALSE, err |-> "", data |-> acc]
    ELSE LET d == InterpolatedPoint(start_data, end_data, gap_count, i)
         IN IF PostInitOk(d)
            THEN InterpolateFrom(start_data, end_data, gap_count, i + 1, Append(acc, d))
            ELSE [raised |-> TRUE, err |-> "ValueError", data |-> <<>>]

\* _interpolate_data
InterpolateData(start_data, end_data, gap_count) ==
    InterpolateFrom(start_data, end_data, gap_count, 1, <<>>)

\* expected_gaps > 0 and expected_gaps <= self.max_interpolation_gap
IsSmallGapNoLimit(gaps) == gaps > 0
IsSmallGap(gaps) == gaps > 0 /\ gaps <= max_interpolation_gap

\* elif expected_gaps > self.max_interpolation_gap
IsLargeGap(gaps) == gaps > max_interpolation_gap

\* The for loop of _handle_missing_data from position i on; logged collects the
\* expected_gaps of the pairs reported by logger.error("Large data gap detected ...")
RECURSIVE HandleFrom(_, _, _, _, _, _)
HandleFrom(data_list, i, expected_interval, filled, count, logged) ==
    IF i > Len(data_list)
    THEN [raised |-> FALSE, err |-> "", data |-> filled, count |-> count, logged |-> logged]
    ELSE LET filled1 == Append(filled, data_list[i])
         IN IF i = Len(data_list)
            THEN HandleFrom(data_list, i + 1, expected_interval, filled1, count, logged)
            ELSE LET gaps == ExpectedGaps(data_list[i + 1].timestamp - data_list[i].timestamp,
                                          expected_interval)
                 IN IF IsSmallGap(gaps)
                    THEN IF PolicyCheck.raised
                         THEN [raised |-> TRUE, err |-> "AttributeError",
                               data |-> <<>>, count |-> 0, logged |-> logged]
                         ELSE IF PolicyCheck.value
                         THEN LET ip == InterpolateData(data_list[i], data_list[i + 1], gaps)
                              IN IF ip.raised
                                 THEN [raised |-> TRUE, err |-> ip.err,
                                       data |-> <<>>, count |-> 0, logged |-> logged]
                                 ELSE HandleFrom(data_list, i + 1, expected_interval,
                                                 filled1 \o ip.data, count + Len(ip.data),
                                                 logged)
                         ELSE HandleFrom(data_list, i + 1, expected_interval, filled1, count,
                                         logged)
                    ELSE IF IsLargeGap(gaps)
                    THEN HandleFrom(data_list, i + 1, expected_interval, filled1, count,
                                    Append(logged, gaps))
                    ELSE HandleFrom(data_list, i + 1, expected_interval, filled1, count, logged)

\* _handle_missing_data
HandleMissingData(data_list) ==
    IF Len(data_list) < 2
    THEN [raised |-> FALSE, err |-> "", data |-> data_list, count |-> 0, logged |-> <<>>]
    ELSE HandleFrom(data_list, 1, TimeframeMinutes(data_list[1].timeframe), <<>>, 0, <<>>)

\* _calculate_quality_score, as the exact fraction num/den
CalculateQualityScoreNoFloor(total, corrupted, interpolated) ==
    IF total = 0 THEN [num |-> 0, den |-> 1]
    ELSE [num |-> Min(10 * total, 10 * total - 5 * corrupted - 2 * interpolated),
          den |-> 10 * total]
CalculateQualityScore(total, corrupted, interpolated) ==
    IF total = 0 THEN [num |-> 0, den |-> 1]
    ELSE [num |-> Min(10 * total, Max(0, 10 * total - 5 * corrupted - 2 * interpolated)),
          den |-> 10 * total]

\* list.sort(key=lambda x: x.timestamp): stable, ascending
SortNone(data_list) == data_list
RECURSIVE InsertSorted(_, _)
InsertSorted(sorted, d) ==
    IF sorted = <<>> THEN <<d>>
    ELSE IF sorted[Len(sorted)].timestamp <= d.timestamp THEN Append(sorted, d)
    ELSE Append(InsertSorted(SubSeq(sorted, 1, Len(sorted) - 1), d), sorted[Len(sorted)])

RECURSIVE SortFrom(_, _, _)
SortFrom(data_list, i, acc) ==
    IF i > Len(data_list) THEN acc
    ELSE SortFrom(data_list, i + 1, InsertSorted(acc, data_list[i]))

SortByTimestamp(data_list) == SortFrom(data_list, 1, <<>>)

Metrics(symbol, total, missing, interpolated, corrupted, score) ==
    [symbol |-> symbol, total_records |-> total, missing_records |-> missing,
     interpolated_records |-> interpolated, corrupted_records |-> corrupted,
     quality_score |-> score]

NoMetrics == Metrics("", 0, 0, 0, 0, [num |-> 0, den |-> 1])

\* DataQualityMetrics.missing_ratio, as the exact fraction num/den
missing_ratio(m) == [num |-> m.missing_records, den |-> Max(m.total_records, 1)]

\* DataQualityMetrics.is_healthy: quality_score >= 0.95 and missing_ratio <= 0.05
IsHealthyScoreOnly(m) == 100 * m.quality_score.num >= 95 * m.quality_score.den
is_healthy(m) ==
    /\ 100 * m.quality_score.num >= 95 * m.quality_score.den
    /\ 100 * missing_ratio(m).num <= 5 * missing_ratio(m).den

\* validate_data_integrity
ValidateDataIntegrity(data_list) ==
    IF data_list = <<>>
    THEN [raised |-> FALSE, err |-> "", data |-> <<>>, logged |-> <<>>,
          metrics |-> Metrics("unknown", 0, 0, 0, 0, [num |-> 0, den |-> 1])]
    ELSE LET symbol == data_list[1].symbol
             original_count == Len(data_list)
             \* the try block of step 1 only appends, so nothing is counted as corrupted
             corrupted_count == 0
             validated == SortByTimestamp(data_list)
             h == HandleMissingData(validated)
         IN IF h.raised
            THEN [raised |-> TRUE, err |-> h.err, data |-> <<>>, logged |-> h.logged,
                  metrics |-> NoMetrics]
            ELSE [raised |-> FALSE, err |-> "", data |-> h.data, logged |-> h.logged,
                  metrics |-> Metrics(symbol, Len(h.data),
                                      Max(0, original_count - Len(validated)),
                                      h.count, corrupted_count,
                                      CalculateQualityScore(original_count, corrupted_count,
                                                            h.count))]

----------------------------------------------------------------------------
(* DatabaseManager.insert_market_data and the price_data table *)

\* The parameter dictionary built for one MarketData
RecordOf(data) ==
    [timestamp |-> data.timestamp, symbol |-> data.symbol, exchange |-> "binance",
     timeframe |-> data.timeframe, open |-> data.open, high |-> data.high,
     low |-> data.low, close |-> data.close, volume |-> data.volume,
     quote_volume |-> data.quote_volume, trades_count |-> data.trades_count,
     taker_buy_volume |-> data.taker_buy_volume,
     taker_buy_quote_volume |-> data.taker_buy_quote_volume,
     is_interpolated |-> data.is_interpolated, data_source |-> data.data_source]

\* ON CONFLICT (time, symbol, exchange, timeframe): the conflict target, as the
\* statement names it (the migrations declare only non-unique indexes on
\* price_data; the statement's own key is what is modelled)
SameKey(r, rec) ==
    /\ r.time = rec.timestamp /\ r.symbol = rec.symbol
    /\ r.exchange = rec.exchange /\ r.timeframe = rec.timeframe

\* INSERT ... VALUES (..., NOW())
InsertedRow(rec, t) ==
    [time |-> rec.timestamp, symbol |-> rec.symbol, exchange |-> rec.exchange,
     timeframe |-> rec.timeframe, open |-> rec.open, high |-> rec.high,
     low |-> rec.low, close |-> rec.close, volume |-> rec.volume,
     quote_volume |-> rec.quote_volume, trades_count |-> rec.trades_count,
     taker_buy_volume |-> rec.taker_buy_volume,
     taker_buy_quote_volume |-> rec.taker_buy_quote_volume,
     is_interpolated |-> rec.is_interpolated, data_source |-> rec.data_source,
     created_at |-> t]

\* DO UPDATE SET ... = EXCLUDED. ...
UpdatedRow(r, rec) ==
    [r EXCEPT !.open = rec.open, !.high = rec.high, !.low = rec.low,
              !.close = rec.close, !.volume = rec.volume,
              !.quote_volume = rec.quote_volume,
              !.is_interpolated = rec.is_interpolated,
              !.data_source = rec.data_source]

\* The row one execution of insert_query writes
WrittenRow(st, rec, t) ==
    IF \E r \in st : SameKey(r, rec)
    THEN UpdatedRow(CHOOSE r \in st : SameKey(r, rec), rec)
    ELSE InsertedRow(rec, t)

\* The table after one execution of insert_query
PlainInsert(st, rec, t) == st \cup {InsertedRow(rec, t)}
Upsert(st, rec, t) == {r \in st : ~SameKey(r, rec)} \cup {WrittenRow(st, rec, t)}

\* The CHECK constraints of price_data
TableConstraints(row) ==
    /\ row.open > 0 /\ row.high > 0 /\ row.low > 0 /\ row.close > 0
    /\ row.high >= row.open /\ row.high >= row.close
    /\ row.low <= row.open /\ row.low <= row.close
    /\ row.volume >= 0
    /\ row.data_source \in {"api", "websocket", "manual"}

\* insert_query executed for the records from position i on; fault is the
\* position at which the store itself fails (0: it does not; Len + 1: at commit)
RECURSIVE ExecuteFrom(_, _, _, _, _)
ExecuteFrom(st, records, i, t, fault) ==
    IF fault = i THEN [ok |-> FALSE, store |-> st]
    ELSE IF i > Len(records) THEN [ok |-> TRUE, store |-> st]
    ELSE IF TableConstraints(WrittenRow(st, records[i], t))
         THEN ExecuteFrom(Upsert(st, records[i], t), records, i + 1, t, fault)
         ELSE [ok |-> FALSE, store |-> st]

\* with self.engine.connect() as conn: conn.execute(...); conn.commit()
\* An exception leaves the with block before the commit: the connection is
\* closed and its transaction rolled back.
TransactionAutocommit(st, records, t, fault) == ExecuteFrom(st, records, 1, t, fault)
Transaction(st, records, t, fault) ==
    LET r == ExecuteFrom(st, records, 1, t, fault)
    IN IF r.ok THEN r ELSE [ok |-> FALSE, store |-> st]

InsertSwallowsErrors(st, data_list, t, fault) == [raised |-> FALSE, count |-> 0, store |-> st]
insert_market_data(st, data_list, t, fault) ==
    IF data_list = <<>> THEN [raised |-> FALSE, count |-> 0, store |-> st]
    ELSE LET records == [i \in 1..Len(data_list) |-> RecordOf(data_list[i])]
             tx == Transaction(st, records, t, fault)
         IN IF tx.ok THEN [raised |-> FALSE, count |-> Len(records), store |-> tx.store]
            ELSE [raised |-> TRUE, count |-> 0, store |-> tx.store]

\* The store faults an insert of data_list can meet
Faults(data_list) == 0..(Len(data_list) + 1)

----------------------------------------------------------------------------
(* ExchangeAPIManager.fetch_ohlcv_with_retry *)

\* min(self.base_delay * (2 ** attempt), self.max_delay)
BackoffLinear(a) == Min(base_delay * 2 * a, max_delay)
BackoffDelay(a) == Min(base_delay * (2 ^ a), max_delay)

Sleep(a) == [next |-> "sleep", delay |-> BackoffDelay(a), err |-> ""]
Raise(err) == [next |-> "raise", delay |-> 0, err |-> err]

\* except ccxt.NetworkError
OnNetworkError(a) ==
    IF a < max_retries - 1 THEN Sleep(a) ELSE Raise("NetworkError")

\* except ccxt.ExchangeError; rate_limit: "rate limit" in str(e).lower()
OnExchangeErrorAlwaysRetry(rate_limit, a) == Sleep(a)
OnExchangeError(rate_limit, a) ==
    IF rate_limit THEN Sleep(a) ELSE Raise("ExchangeError")

\* except Exception
OnExceptionNoRetry(err, a) == Raise(err)
OnException(err, a) ==
    IF a < max_retries - 1 THEN Sleep(a) ELSE Raise(err)

\* The body of the for loop, given what exchange.fetch_ohlcv produced
FetchStep(resp, a) ==
    CASE resp.kind = "data" -> [next |-> "return", delay |-> 0, err |-> ""]
      [] resp.kind = "empty" -> OnException("ValueError", a)
      [] resp.kind = "NetworkError" -> OnNetworkError(a)
      [] resp.kind = "RateLimit" -> OnExchangeError(TRUE, a)
      [] resp.kind = "ExchangeError" -> OnExchangeError(FALSE, a)
      [] OTHER -> OnException("Unexpected", a)

\* for attempt in range(self.max_retries): another iteration follows attempt a
LoopContinuesOffByOne(a) == a + 1 <= max_retries
LoopContinues(a) == a + 1 < max_retries

NoFetch == [kind |-> "none", data |-> <<>>, err |-> "", attempts |-> None]
Returned(data) == [kind |-> "data", data |-> data, err |-> "", attempts |-> None]
Raised(err) == [kind |-> "raise", data |-> <<>>, err |-> err, attempts |-> None]
\* raise Exception(f"Failed to fetch ... after {self.max_retries} attempts")
RetriesExhausted == [kind |-> "raise", data |-> <<>>, err |-> "Exception",
                     attempts |-> max_retries]

\* What one invocation of exchange.fetch_ohlcv can produce
NoResponse == [kind |-> "none", data |-> <<>>]
ErrorKinds == {"empty", "NetworkError", "RateLimit", "ExchangeError", "Unexpected"}
ExchangeResponses(batches) ==
    {[kind |-> "data", data |-> b] : b \in batches}
        \cup {[kind |-> k, data |-> <<>>] : k \in ErrorKinds}

----------------------------------------------------------------------------
(* DataHandler *)

\* self.primary_timeframe
primary_timeframe == "1h"

\* fetch_realtime_data after fetch_ohlcv_with_retry ended with res: the
\* conversion, the trailing-candle exclusion, and [] on any exception
FetchRealtimeFallback(res, symbol) ==
    IF res.kind = "raise"
    THEN <<MarketData(symbol, primary_timeframe, 0, PriceUnit, PriceUnit, PriceUnit, PriceUnit,
                      PriceUnit, "api", FALSE)>>
    ELSE LET conv == convert_ohlcv_to_market_data(res.data, symbol, primary_timeframe)
         IN IF conv.raised THEN <<>>
            ELSE IF Len(conv.data) > 1 THEN SubSeq(conv.data, 1, Len(conv.data) - 1)
            ELSE conv.data
fetch_realtime_data(res, symbol) ==
    IF res.kind = "raise" THEN <<>>
    ELSE LET conv == convert_ohlcv_to_market_data(res.data, symbol, primary_timeframe)
         IN IF conv.raised THEN <<>>
            ELSE IF Len(conv.data) > 1 THEN SubSeq(conv.data, 1, Len(conv.data) - 1)
            ELSE conv.data

\* collect_and_store_data, except Exception: the slot is set to -1 and the
\* for loop goes on with the next symbol (n symbols, the failing one at i)
ExceptHandlerPropagates(res, symbol, i, n) == [results |-> res, next |-> n + 1]
ExceptHandlerSkipsSlot(res, symbol, i, n) == [results |-> res, next |-> i + 1]
ExceptHandler(res, symbol, i, n) == [results |-> Put(res, symbol, -1), next |-> i + 1]

NoInsert == [kind |-> "none", count |-> 0, faulted |-> FALSE]
InsertOutcome(r, fault) ==
    [kind |-> IF r.raised THEN "raise" ELSE "return", count |-> r.count,
     faulted |-> (fault # 0)]

----------------------------------------------------------------------------
(* Inputs *)

HourMs == 60 * 60 * 1000
Slots == 0..MaxSlot
Price1 == 2 * PriceUnit
Price2 == 3 * PriceUnit

\* A well-formed candle at hour slot with open = close = p
Ok(slot, p) == [kind |-> "ok", ts |-> slot * HourMs, o |-> p, h |-> p + PriceUnit,
                l |-> p - PriceUnit, c |-> p, v |-> PriceUnit]
\* A tuple whose high is below its open
Bad(slot) == [kind |-> "ok", ts |-> slot * HourMs, o |-> Price1, h |-> PriceUnit,
              l |-> PriceUnit, c |-> Price1, v |-> PriceUnit]
\* A tuple with a None field
Null(slot) == [kind |-> "null", ts |-> slot * HourMs, o |-> 0, h |-> 0, l |-> 0,
               c |-> 0, v |-> 0]
\* A tuple with fewer than six fields
Short(slot) == [kind |-> "short", ts |-> slot * HourMs, o |-> 0, h |-> 0, l |-> 0,
                c |-> 0, v |-> 0]
\* A tuple with a field that is not a number
Text(slot) == [kind |-> "text", ts |-> slot * HourMs, o |-> 0, h |-> 0, l |-> 0,
               c |-> 0, v |-> 0]

AllSymbols == <<"A", "B", "C">>
SymbolLists ==
    {<<"A">>, <<"B">>, <<"C">>, <<"A", "B">>, <<"A", "C">>, <<"B", "C">>,
     <<"A", "B", "C">>}

\* Exchange results of a tick over several symbols: one closed candle; three
\* adjacent candles; a one-hour hole before the trailing candle's predecessor;
\* a malformed first tuple; a tuple with a None field; a short tuple and a
\* non-numeric one; candles at 0h and 3h; candles at 0h and 7h
TickBatches ==
    {<<Ok(0, Price1)>>,
     <<Ok(0, Price1), Ok(1, Price1), Ok(2, Price1)>>,
     <<Ok(0, Price1), Ok(2, Price1), Ok(3, Price1)>>,
     <<Bad(0), Ok(1, Price1), Ok(2, Price1)>>,
     <<Null(0), Ok(1, Price1)>>,
     <<Short(0), Text(1), Ok(2, Price1), Ok(3, Price2)>>,
     <<Ok(0, Price1), Ok(3, Price2), Ok(4, Price1)>>,
     <<Ok(0, Price1), Ok(7, Price1), Ok(8, Price1), Ok(9, Price1)>>}

\* Exchange results of a tick over one symbol: every time-ascending sequence
\* of well-formed and malformed tuples on the hour slots
RawTuples == {Ok(s, Price1) : s \in Slots} \cup {Bad(s) : s \in Slots}
AscendingBatches ==
    {b \in UNION {[1..k -> RawTuples] : k \in 1..MaxSlot} :
        \A i \in 1..(Len(b) - 1) : b[i].ts < b[i + 1].ts}

\* Candles handed to insert_market_data by a direct caller: two hour slots of
\* symbol A, each in three versions (an API candle; a manually entered one
\* with every optional field set; one marked as interpolated)
Versions ==
    {[price |-> Price1, volume |-> PriceUnit, optional |-> None,
      source |-> "api", interpolated |-> FALSE],
     [price |-> Price2, volume |-> 2 * PriceUnit, optional |-> 7,
      source |-> "manual", interpolated |-> TRUE],
     [price |-> Price1, volume |-> PriceUnit, optional |-> None,
      source |-> "interpolation", interpolated |-> TRUE]}
Candle(slot, ver) ==
    [MarketData("A", primary_timeframe, FromTimestamp(slot * HourMs), ver.price,
                ver.price + PriceUnit, ver.price - PriceUnit, ver.price, ver.volume,
                ver.source, ver.interpolated)
        EXCEPT !.quote_volume = ver.optional, !.trades_count = ver.optional,
               !.taker_buy_volume = ver.optional,
               !.taker_buy_quote_volume = ver.optional]
DirectCandles == {Candle(slot, ver) : slot \in {0, 1}, ver \in Versions}
DirectBatches == UNION {[1..k -> DirectCandles] : k \in 0..MaxDirectBatch}

----------------------------------------------------------------------------
(* The state machine *)

\* No call is running; nothing has returned yet
NoCall == [fn |-> "none"]
NoReturn == [kind |-> "none"]

EnterFetch ==
    /\ attempt' = 0
    /\ calls' = 0
    /\ sleeps' = <<>>
    /\ lastOutcome' = NoResponse
    /\ transientOnly' = TRUE
    /\ fetchRes' = NoFetch

\* A DataHandler, its validator and an empty table after construction
Constructed ==
    /\ symbols = <<>>
    /\ idx = 0
    /\ results = EmptyMap
    /\ quality_metrics = EmptyMap
    /\ market_data_list = <<>>
    /\ validated_data = <<>>
    /\ gap_log = <<>>
    /\ insertRes = NoInsert
    /\ store = {}
    /\ now = 0
    /\ attempt = 0
    /\ calls = 0
    /\ sleeps = <<>>
    /\ lastOutcome = NoResponse
    /\ transientOnly = TRUE
    /\ fetchRes = NoFetch
    /\ fetched = EmptyMap
    /\ dbFault = EmptyMap
    /\ ticks = 0
    /\ inserts = 0
    /\ backfills = 0

Init ==
    /\ pc = "idle"
    /\ args = NoCall
    /\ ret = NoReturn
    /\ Constructed

\* collect_and_store_data is called with one of lists
StartTick(lists) ==
    /\ pc = "idle"
    /\ ticks < MaxTicks
    /\ \E l \in lists : symbols' = l
    /\ idx' = 1
    /\ results' = EmptyMap
    /\ fetched' = EmptyMap
    /\ dbFault' = EmptyMap
    /\ ticks' = ticks + 1
    /\ market_data_list' = <<>>
    /\ validated_data' = <<>>
    /\ pc' = "call"
    /\ EnterFetch
    /\ args' = [fn |-> "collect_and_store_data"]
    /\ UNCHANGED <<backfills, ret, gap_log, quality_metrics, insertRes, store, now, inserts>>

\* One iteration of the retry loop up to its return, raise or asyncio.sleep
ExchangeCall(batches) ==
    /\ pc = "call"
    /\ \E resp \in ExchangeResponses(batches) :
         LET step == FetchStep(resp, attempt)
         IN /\ calls' = calls + 1
            /\ lastOutcome' = resp
            /\ transientOnly' = (transientOnly /\ resp.kind \in {"data", "NetworkError", "RateLimit"})
            /\ pc' = IF step.next = "sleep" THEN "sleep" ELSE "fetched"
            /\ sleeps' = IF step.next = "sleep" THEN Append(sleeps, step.delay) ELSE sleeps
            /\ fetchRes' = CASE step.next = "return" -> Returned(resp.data)
                             [] step.next = "raise" -> Raised(step.err)
                             [] OTHER -> fetchRes
    /\ UNCHANGED <<backfills, args, ret, gap_log, attempt, symbols, idx, results, quality_metrics, market_data_list,
                   validated_data, insertRes, store, now, fetched, dbFault, ticks, inserts>>

\* asyncio.sleep returns; continue: the next iteration, or the end of the loop
Wake ==
    /\ pc = "sleep"
    /\ attempt' = attempt + 1
    /\ pc' = IF LoopContinues(attempt) THEN "call" ELSE "fetched"
    /\ fetchRes' = IF LoopContinues(attempt) THEN fetchRes ELSE RetriesExhausted
    /\ UNCHANGED <<backfills, args, ret, gap_log, calls, sleeps, lastOutcome, transientOnly, symbols, idx, results,
                   quality_metrics, market_data_list, validated_data, insertRes, store,
                   now, fetched, dbFault, ticks, inserts>>

\* fetch_realtime_data returns to collect_and_store_data
FetchRealtimeReturn ==
    /\ pc = "fetched"
    /\ args.fn = "collect_and_store_data"
    /\ market_data_list' = fetch_realtime_data(fetchRes, symbols[idx])
    /\ fetched' = Put(fetched, symbols[idx], fetchRes)
    /\ pc' = "validate"
    /\ UNCHANGED <<backfills, args, ret, gap_log, symbols, idx, results, quality_metrics, validated_data, insertRes,
                   store, now, dbFault, ticks, inserts>>
    /\ UNCHANGED fetchVars

\* The for loop moves to position next
GoTo(next) ==
    /\ idx' = next
    /\ IF next <= Len(symbols)
       THEN pc' = "call" /\ EnterFetch
       ELSE pc' = "done" /\ UNCHANGED fetchVars

\* if market_data_list: validate_data_integrity and the metrics slot; else slot 0
ValidateStep ==
    /\ pc = "validate"
    /\ LET symbol == symbols[idx]
           v == ValidateDataIntegrity(market_data_list)
       IN IF market_data_list = <<>>
          THEN /\ results' = Put(results, symbol, 0)
               /\ GoTo(idx + 1)
               /\ UNCHANGED <<quality_metrics, validated_data, gap_log>>
          ELSE IF v.raised
          THEN LET h == ExceptHandler(results, symbol, idx, Len(symbols))
               IN /\ results' = h.results
                  /\ gap_log' = v.logged
                  /\ GoTo(h.next)
                  /\ UNCHANGED <<quality_metrics, validated_data>>
          ELSE /\ quality_metrics' = Put(quality_metrics, symbol, v.metrics)
               /\ validated_data' = v.data
               /\ gap_log' = v.logged
               /\ pc' = "store"
               /\ UNCHANGED <<idx, results>>
               /\ UNCHANGED fetchVars
    /\ UNCHANGED <<symbols, market_data_list, insertRes, store, now, fetched, dbFault,
                   ticks, inserts, backfills, args, ret>>

\* with self.db_manager as db: results[symbol] = db.insert_market_data(validated_data)
StoreStep ==
    /\ pc = "store"
    /\ \E fault \in Faults(validated_data) :
         LET symbol == symbols[idx]
             r == insert_market_data(store, validated_data, now, fault)
             h == ExceptHandler(results, symbol, idx, Len(symbols))
         IN /\ store' = r.store
            /\ now' = now + 1
            /\ insertRes' = InsertOutcome(r, fault)
            /\ dbFault' = Put(dbFault, symbol, fault # 0)
            /\ results' = IF r.raised THEN h.results ELSE Put(results, symbol, r.count)
            /\ GoTo(IF r.raised THEN h.next ELSE idx + 1)
    /\ UNCHANGED <<backfills, args, ret, gap_log, symbols, quality_metrics, market_data_list, validated_data, fetched,
                   ticks, inserts>>

\* collect_and_store_data has ended; the handler waits for the next tick
FinishTick ==
    /\ pc = "done"
    /\ pc' = "idle"
    /\ UNCHANGED <<backfills, args, ret, gap_log, symbols, idx, results, quality_metrics, market_data_list,
                   validated_data, insertRes, store, now, fetched, dbFault, ticks, inserts>>
    /\ UNCHANGED fetchVars

\* One collection tick over up to three symbols
Next ==
    \/ StartTick(SymbolLists)
    \/ ExchangeCall(TickBatches)
    \/ Wake
    \/ FetchRealtimeReturn
    \/ ValidateStep
    \/ StoreStep

Spec == Init /\ [][Next]_vars

\* Collection ticks over one symbol, one after the other
NextTicks ==
    \/ StartTick({<<"A">>})
    \/ ExchangeCall(AscendingBatches)
    \/ Wake
    \/ FetchRealtimeReturn
    \/ ValidateStep
    \/ StoreStep
    \/ FinishTick

SpecTicks == Init /\ [][NextTicks]_vars

\* A caller hands one of batches to insert_market_data
CallInsert(batches) ==
    /\ pc = "idle"
    /\ inserts < MaxInserts
    /\ \E b \in batches : validated_data' = b
    /\ inserts' = inserts + 1
    /\ pc' = "insert"
    /\ UNCHANGED <<backfills, args, ret, gap_log, symbols, idx, results, quality_metrics, market_data_list, insertRes,
                   store, now, fetched, dbFault, ticks>>
    /\ UNCHANGED fetchVars

\* insert_market_data returns or raises
ReturnInsert ==
    /\ pc = "insert"
    /\ \E fault \in Faults(validated_data) :
         LET r == insert_market_data(store, validated_data, now, fault)
         IN /\ store' = r.store
            /\ now' = IF validated_data = <<>> THEN now ELSE now + 1
            /\ insertRes' = InsertOutcome(r, IF validated_data = <<>> THEN 0 ELSE fault)
    /\ pc' = "idle"
    /\ UNCHANGED <<backfills, args, ret, gap_log, symbols, idx, results, quality_metrics, market_data_list,
                   validated_data, fetched, dbFault, ticks, inserts>>
    /\ UNCHANGED fetchVars

\* Direct calls of insert_market_data, one after the other
NextStore ==
    \/ CallInsert(DirectBatches)
    \/ ReturnInsert

SpecStore == Init /\ [][NextStore]_vars

\* fetch_historical_data is called for one of syms
StartHistorical(syms) ==
    /\ pc = "idle"
    /\ backfills < MaxBackfills
    /\ \E s \in syms : args' = [fn |-> "fetch_historical_data", symbol |-> s]
    /\ backfills' = backfills + 1
    /\ ret' = NoReturn
    /\ pc' = "call"
    /\ EnterFetch
    /\ UNCHANGED <<gap_log, symbols, idx, results, quality_metrics, market_data_list,
                   validated_data, insertRes, store, now, fetched, dbFault, ticks, inserts>>

\* fetch_historical_data after fetch_ohlcv_with_retry ended with res: the
\* conversion and the validation; any exception is logged and raised again
fetch_historical_data(res, symbol) ==
    IF res.kind = "raise" THEN [raised |-> TRUE, err |-> res.err, validated |-> FALSE]
    ELSE LET conv == convert_ohlcv_to_market_data(res.data, symbol, primary_timeframe)
         IN IF conv.raised THEN [raised |-> TRUE, err |-> conv.err, validated |-> FALSE]
            ELSE LET v == ValidateDataIntegrity(conv.data)
                 IN IF v.raised
                    THEN [raised |-> TRUE, err |-> v.err, validated |-> TRUE,
                          logged |-> v.logged]
                    ELSE [raised |-> FALSE, validated |-> TRUE, logged |-> v.logged,
                          quality_metrics |-> v.metrics, validated_data |-> v.data]

\* fetch_historical_data returns the validated candles to its caller, or raises
HistoricalReturn ==
    /\ pc = "fetched"
    /\ args.fn = "fetch_historical_data"
    /\ LET h == fetch_historical_data(fetchRes, args.symbol)
       IN /\ gap_log' = IF h.validated THEN h.logged ELSE gap_log
          /\ quality_metrics' = IF h.raised THEN quality_metrics
                                ELSE Put(quality_metrics, args.symbol, h.quality_metrics)
          /\ ret' = IF h.raised THEN [kind |-> "raise", err |-> h.err]
                    ELSE [kind |-> "return", data |-> h.validated_data]
    /\ pc' = "idle"
    /\ UNCHANGED <<symbols, idx, results, market_data_list, validated_data, insertRes, store,
                   now, fetched, dbFault, ticks, inserts, backfills, args>>
    /\ UNCHANGED fetchVars

\* Exchange results of ticks and backfills: one closed candle and the open one;
\* adjacent candles; only malformed tuples
HistBatches ==
    {<<Ok(0, Price1), Ok(1, Price1)>>,
     <<Ok(1, Price1), Ok(2, Price2), Ok(3, Price1)>>,
     <<Bad(0), Bad(1)>>}

\* Collection ticks and historical backfills over two symbols, one after the other
NextHist ==
    \/ StartTick({<<"A">>, <<"B">>})
    \/ StartHistorical({"A", "B"})
    \/ ExchangeCall(HistBatches)
    \/ Wake
    \/ FetchRealtimeReturn
    \/ HistoricalReturn
    \/ ValidateStep
    \/ StoreStep
    \/ FinishTick

SpecHist == Init /\ [][NextHist]_vars

\* Arguments of direct calls of _calculate_quality_score: every count up to
\* MaxCount, and 100 records of which 5 are corrupted and 10 interpolated
ScoreCalls ==
    {[fn |-> "_calculate_quality_score", total |-> t, corrupted |-> c, interpolated |-> i] :
        t \in 0..MaxCount, c \in 0..MaxCount, i \in 0..MaxCount}
      \cup {[fn |-> "_calculate_quality_score", total |-> 100, corrupted |-> 5,
              interpolated |-> 10]}

\* Metrics objects whose is_healthy is read: scores 0, 0.94, 0.95, 0.955 and 1;
\* batches of 0, 1, 20 and 100 records with up to MaxCount + 3 missing ones
Scores ==
    {[num |-> 0, den |-> 1], [num |-> 94, den |-> 100], [num |-> 95, den |-> 100],
     [num |-> 955, den |-> 1000], [num |-> 1, den |-> 1]}
HealthCalls ==
    {[fn |-> "is_healthy", metrics |-> Metrics("A", t, m, 0, 0, q)] :
        t \in {0, 1, 20, 100}, m \in 0..(MaxCount + 3), q \in Scores}

\* _calculate_quality_score is applied to the arguments
ApplyScore ==
    /\ pc = "apply"
    /\ args.fn = "_calculate_quality_score"
    /\ ret' = [kind |-> "return",
               value |-> CalculateQualityScore(args.total, args.corrupted, args.interpolated)]
    /\ pc' = "applied"
    /\ UNCHANGED <<args, gap_log, symbols, idx, results, quality_metrics, market_data_list,
                   validated_data, insertRes, store, now, fetched, dbFault, ticks, inserts,
                   backfills>>
    /\ UNCHANGED fetchVars

\* missing_ratio and is_healthy of the metrics object are read
ApplyHealthy ==
    /\ pc = "apply"
    /\ args.fn = "is_healthy"
    /\ ret' = [kind |-> "return", missing_ratio |-> missing_ratio(args.metrics),
               value |-> is_healthy(args.metrics)]
    /\ pc' = "applied"
    /\ UNCHANGED <<args, gap_log, symbols, idx, results, quality_metrics, market_data_list,
                   validated_data, insertRes, store, now, fetched, dbFault, ticks, inserts,
                   backfills>>
    /\ UNCHANGED fetchVars

\* Arguments of direct calls of _interpolate_data as _handle_missing_data
\* makes them: a candle at 0h, a candle 2h to 6.5h later (in steps of half an
\* hour), and the expected_gaps of the pair
ApiCandle(timestamp, p) ==
    MarketData("A", primary_timeframe, timestamp, p, p + PriceUnit, p - PriceUnit, p,
               PriceUnit, "api", FALSE)
InterpolateCalls ==
    {[fn |-> "_interpolate_data", start_data |-> ApiCandle(0, p1),
      end_data |-> ApiCandle(k * (30 * 60), p2),
      gap_count |-> ExpectedGaps(k * (30 * 60), TimeframeMinutes(primary_timeframe))] :
        k \in 4..13, p1 \in {Price1, Price2}, p2 \in {Price1, Price2}}

\* _interpolate_data is applied to the arguments
ApplyInterpolate ==
    /\ pc = "apply"
    /\ args.fn = "_interpolate_data"
    /\ LET r == InterpolateData(args.start_data, args.end_data, args.gap_count)
       IN ret' = IF r.raised THEN [kind |-> "raise", err |-> r.err]
                 ELSE [kind |-> "return", value |-> r.data]
    /\ pc' = "applied"
    /\ UNCHANGED <<args, gap_log, symbols, idx, results, quality_metrics, market_data_list,
                   validated_data, insertRes, store, now, fetched, dbFault, ticks, inserts,
                   backfills>>
    /\ UNCHANGED fetchVars

\* Arguments of direct calls of validate_data_integrity: every list of one to
\* MaxList candles at 0h, 1h, 7h and 8h, in any order, repetitions included
ListCandles == {ApiCandle(h * 60 * 60, Price1) : h \in {0, 1, 7, 8}}
ValidateCalls ==
    {[fn |-> "validate_data_integrity", data_list |-> l] :
        l \in UNION {[1..k -> ListCandles] : k \in 1..MaxList}}

\* validate_data_integrity is applied to the list
ApplyValidate ==
    /\ pc = "apply"
    /\ args.fn = "validate_data_integrity"
    /\ LET v == ValidateDataIntegrity(args.data_list)
       IN /\ ret' = IF v.raised THEN [kind |-> "raise", err |-> v.err]
                    ELSE [kind |-> "return", value |-> v.data, metrics |-> v.metrics]
          /\ gap_log' = v.logged
    /\ pc' = "applied"
    /\ UNCHANGED <<args, symbols, idx, results, quality_metrics, market_data_list,
                   validated_data, insertRes, store, now, fetched, dbFault, ticks, inserts,
                   backfills>>
    /\ UNCHANGED fetchVars

PureCalls == ScoreCalls \cup HealthCalls \cup InterpolateCalls \cup ValidateCalls

\* One direct call of a function of the validator or of the metrics object
InitPure ==
    /\ pc = "apply"
    /\ args \in PureCalls
    /\ ret = NoReturn
    /\ Constructed

NextPure ==
    \/ ApplyScore
    \/ ApplyHealthy
    \/ ApplyInterpolate
    \/ ApplyValidate

SpecPure == InitPure /\ [][NextPure]_vars

----------------------------------------------------------------------------
(* Properties *)

\* The Candle invariant of a record with fields open, high, low, close, volume
CandleInvariant(r) ==
    /\ r.open > 0 /\ r.high > 0 /\ r.low > 0 /\ r.close > 0
    /\ r.volume >= 0
    /\ r.high >= r.open /\ r.high >= r.close
    /\ r.low <= r.open /\ r.low <= r.close

\* A raw tuple whose fields break the Candle invariant
Malformed(ohlcv) ==
    ohlcv.kind = "ok" /\ ~CandleInvariant([open |-> ohlcv.o, high |-> ohlcv.h,
                                           low |-> ohlcv.l, close |-> ohlcv.c,
                                           volume |-> ohlcv.v])

\* C1: after any sequence of collection ticks over arbitrary raw tuples, every
\* row of the store satisfies open, high, low, close > 0, volume >= 0,
\* high >= max(open, close) and low <= min(open, close); so does every candle
\* on its way to the store (the list fetch_realtime_data returned and the list
\* handed to insert_market_data).
C1_StoredCandlesValid ==
    /\ \A r \in store : CandleInvariant(r)
    /\ \A i \in 1..Len(market_data_list) : CandleInvariant(market_data_list[i])
    /\ \A i \in 1..Len(validated_data) : CandleInvariant(validated_data[i])

\* A second tick has stored rows although its exchange result held a malformed tuple
C1_Witness ==
    /\ pc = "done"
    /\ ticks > 1
    /\ insertRes.kind = "return"
    /\ store # {}
    /\ fetchRes.kind = "data"
    /\ \E i \in 1..Len(fetchRes.data) : Malformed(fetchRes.data[i])

\* insert_market_data returns or raises in this step
InsertReturns == pc \in {"insert", "store"} /\ pc' # pc

\* The record of the batch that decides the row of its key: no later record
\* of the batch has the same key
LastOfKey(batch, i) ==
    \A j \in (i + 1)..Len(batch) :
        ~(/\ batch[j].timestamp = batch[i].timestamp
          /\ batch[j].symbol = batch[i].symbol
          /\ batch[j].timeframe = batch[i].timeframe)

RowsOfKey(st, d) ==
    {r \in st : /\ r.time = d.timestamp /\ r.symbol = d.symbol
                /\ r.exchange = "binance" /\ r.timeframe = d.timeframe}

C3_ReplacedWholesale ==
    [][(InsertReturns /\ insertRes'.kind = "return") =>
          \A i \in 1..Len(validated_data) :
              LastOfKey(validated_data, i) =>
                  LET d == validated_data[i]
                  IN \A r \in RowsOfKey(store', d) :
                         /\ r.open = d.open /\ r.high = d.high /\ r.low = d.low
                         /\ r.close = d.close /\ r.volume = d.volume
                         /\ r.quote_volume = d.quote_volume
                         /\ r.trades_count = d.trades_count
                         /\ r.taker_buy_volume = d.taker_buy_volume
                         /\ r.taker_buy_quote_volume = d.taker_buy_quote_volume
                         /\ r.data_source = d.data_source
                         /\ r.is_interpolated = d.is_interpolated]_vars

\* The table rejects the row of candle d
Rejected(d) == ~TableConstraints(InsertedRow(RecordOf(d), 0))

\* C4: when the store fails on a record of the batch (a store fault, or a row
\* the table rejects), insert_market_data raises, and whenever it raises the
\* store is what it was before the call.
C4_BatchAllOrNothing ==
    [][InsertReturns =>
          /\ (insertRes'.faulted \/ \E i \in 1..Len(validated_data) :
                                        Rejected(validated_data[i]))
                 => insertRes'.kind = "raise"
          /\ insertRes'.kind = "raise" => store' = store]_vars

\* A batch whose second record the table rejects has raised, its first record
\* being one the store does not hold
C4_Witness ==
    /\ pc = "idle"
    /\ insertRes.kind = "raise"
    /\ ~insertRes.faulted
    /\ Len(validated_data) = 2
    /\ ~Rejected(validated_data[1])
    /\ Rejected(validated_data[2])
    /\ RowsOfKey(store, validated_data[1]) = {}

\* C5: in one call of fetch_ohlcv_with_retry the exchange is invoked at most
\* max_retries times whatever it answers: every iteration of the loop makes
\* one invocation, attempt counts them, and no iteration starts once attempt
\* has reached max_retries, where the call ends.
C5_AtMostMaxRetriesCalls ==
    /\ calls <= max_retries
    /\ pc = "call" => (calls = attempt /\ attempt < max_retries)
    /\ pc = "sleep" => calls = attempt + 1
    /\ (pc = "fetched" /\ fetchRes.kind = "data") => lastOutcome.kind = "data"
    /\ pc = "fetched" => fetchRes.kind \in {"data", "raise"}

\* A call that used all its attempts, the last one meeting a rate limit
C5_Witness ==
    /\ pc = "fetched"
    /\ calls = max_retries
    /\ lastOutcome.kind = "RateLimit"
    /\ fetchRes.kind = "raise"

\* C6: the delay slept after failed attempt k is min(base * 2^k, maxDelay)
\* seconds (base 1, maxDelay 60), the delays of one call being slept in the
\* order k = 0, 1, ...; a fetch that fails with NetworkError or a rate-limit
\* error on attempts 0..3 and succeeds on attempt 4 has slept exactly 1, 2, 4, 8
\* and returns the data of the successful attempt.
C6_BackoffDelays ==
    /\ \A k \in 1..Len(sleeps) : sleeps[k] = Min(1 * 2 ^ (k - 1), 60)
    /\ pc = "sleep" => Len(sleeps) = attempt + 1
    /\ (pc = "fetched" /\ fetchRes.kind = "data") => fetchRes.data = lastOutcome.data
    /\ (pc = "fetched" /\ fetchRes.kind = "data" /\ calls = 5 /\ transientOnly)
           => sleeps = <<1, 2, 4, 8>>

\* Four transient failures, then the fifth attempt returned its data
C6_Witness ==
    /\ pc = "fetched"
    /\ fetchRes.kind = "data"
    /\ fetchRes.data # <<>>
    /\ calls = 5
    /\ transientOnly
    /\ sleeps = <<1, 2, 4, 8>>

\* C7: an exchange error whose message names no rate limit ends the fetch at
\* once with that error: no sleep follows it (every sleep of the call lies
\* between two invocations) and no further invocation is made.
C7_FatalErrorPropagates ==
    lastOutcome.kind = "ExchangeError" =>
        /\ pc \notin {"call", "sleep"}
        /\ fetchRes.kind = "raise"
        /\ fetchRes.err = "ExchangeError"
        /\ Len(sleeps) = calls - 1

\* A fatal exchange error on the third attempt has ended the fetch
C7_Witness ==
    /\ pc = "fetched"
    /\ lastOutcome.kind = "ExchangeError"
    /\ calls = 3

C9_TerminalErrorCarriesCount ==
    (pc = "fetched" /\ fetchRes.kind = "raise" /\ calls = max_retries /\ transientOnly)
        => (fetchRes.err = "Exception" /\ fetchRes.attempts = max_retries)

\* What the pipeline of symbol s yields on its own, given how its fetch ended
\* and whether its insert met a store fault: the value of its results slot ...
SoloResult(res, s, faulted) ==
    LET list == fetch_realtime_data(res, s)
        v == ValidateDataIntegrity(list)
    IN IF list = <<>> THEN 0
       ELSE IF v.raised THEN -1
       ELSE IF insert_market_data({}, v.data, 0, IF faulted THEN 1 ELSE 0).raised THEN -1
       ELSE Len(v.data)

\* ... and its rows in the store (creation time set aside)
SoloRows(res, s, faulted) ==
    IF SoloResult(res, s, faulted) > 0
    THEN insert_market_data({}, ValidateDataIntegrity(fetch_realtime_data(res, s)).data,
                            0, 0).store
    ELSE {}

Faulted(s) == s \in DOMAIN dbFault /\ dbFault[s]

\* C10: at the end of a tick every symbol of the list has been processed, and
\* the results slot and the stored rows of each symbol are those its own
\* pipeline yields from its own exchange answers and store faults, whatever
\* happened to the other symbols of the list (a failed fetch, an error in
\* validation or interpolation, a failed insert).
C10_PartialFailureIsolation ==
    pc = "done" =>
        \A i \in 1..Len(symbols) :
            LET s == symbols[i]
            IN /\ s \in DOMAIN results
               /\ s \in DOMAIN fetched
               /\ results[s] = SoloResult(fetched[s], s, Faulted(s))
               /\ {[r EXCEPT !.created_at = 0] : r \in {x \in store : x.symbol = s}}
                      = SoloRows(fetched[s], s, Faulted(s))

\* The tick over A, B, C has ended: the fetch of B exhausted its retries, A
\* and C have their candles stored and counted
C10_Witness ==
    /\ pc = "done"
    /\ symbols = <<"A", "B", "C">>
    /\ fetched["B"].kind = "raise"
    /\ fetched["B"].attempts = max_retries
    /\ results["A"] = 2
    /\ results["C"] = 1
    /\ Cardinality({r \in store : r.symbol = "A"}) = 2
    /\ Cardinality({r \in store : r.symbol = "C"}) = 1

----------------------------------------------------------------------------
(* The per-symbol results slot, completion of a tick, backoff *)

\* The fetch of symbol s of the current tick used up its retry budget
Exhausted(s) ==
    s \in DOMAIN fetched /\ fetched[s].kind = "raise" /\ fetched[s].attempts = max_retries

\* C11: at the end of a tick, the results slot of a symbol whose fetch
\* exhausted its retry budget holds the sentinel -1, which no symbol that was
\* fetched successfully with nothing to insert has.
C11_ExhaustedFetchMarkedFailed ==
    pc = "done" =>
        \A i \in 1..Len(symbols) :
            Exhausted(symbols[i]) =>
                (symbols[i] \in DOMAIN results /\ results[symbols[i]] = -1)

\* One tick over A, B, C whose exchange results are adjacent candles or
\* candles with a one-hour hole
FairBatches ==
    {<<Ok(0, Price1), Ok(1, Price1), Ok(2, Price1)>>,
     <<Ok(0, Price1), Ok(2, Price1), Ok(3, Price1)>>}

NextFair ==
    \/ StartTick({<<"A", "B", "C">>})
    \/ ExchangeCall(FairBatches)
    \/ Wake
    \/ FetchRealtimeReturn
    \/ ValidateStep
    \/ StoreStep

\* The collection tick is a coroutine the event loop keeps running: every
\* awaited call returns or raises and every sleep ends
SpecFair == Init /\ [][NextFair]_vars /\ WF_vars(NextFair)

\* One slot for every symbol of the list, each a count or the sentinel
SlotsComplete ==
    /\ DOMAIN results = {symbols[i] : i \in 1..Len(symbols)}
    /\ \A s \in DOMAIN results : results[s] \in Int /\ results[s] >= -1

\* C12: a tick that has started reaches the end of collect_and_store_data
\* whatever the exchange and the store do, and at that point the results map
\* has exactly one slot per symbol of the list, each holding a non-negative
\* count or the sentinel -1.
C12_TickCompletes ==
    /\ (pc # "idle") ~> (pc = "done")
    /\ [](pc = "done" => SlotsComplete)

\* A tick over A, B, C has ended with a failed symbol between two stored ones
C12_Witness ==
    /\ pc = "done"
    /\ symbols = <<"A", "B", "C">>
    /\ SlotsComplete
    /\ results["A"] > 0
    /\ results["B"] = -1
    /\ results["C"] > 0

\* A step of a symbol's pipeline other than the end of a backoff delay: an
\* exchange call, the normalization, the validation or the insert
PipelineStep ==
    \/ ExchangeCall(TickBatches)
    \/ FetchRealtimeReturn
    \/ ValidateStep
    \/ StoreStep

\* C13: while the fetch of one symbol sleeps in a backoff delay and another
\* symbol of the tick has not been processed yet, a pipeline step can be taken
\* without waiting for the delay to elapse.
C13_BackoffDoesNotBlock ==
    (pc = "sleep" /\ idx < Len(symbols)) => ENABLED PipelineStep

----------------------------------------------------------------------------
(* Normalization, validation and quality metrics *)

\* The raw tuples of a fetched batch that are well-formed and satisfy the
\* Candle invariant, in their original order
ValidTuples(ohlcv_list) ==
    SelectSeq(ohlcv_list, LAMBDA t : t.kind = "ok" /\ ~Malformed(t))

\* The symbol whose pipeline is running
Current == symbols[idx]

\* gapCount of an adjacent pair of one-hour candles
GapCount(prev, next) == ((next.timestamp - prev.timestamp) \div (60 * 60)) - 1

SmallGaps(list) ==
    {i \in 1..(Len(list) - 1) :
        GapCount(list[i], list[i + 1]) > 0 /\ GapCount(list[i], list[i + 1]) <= 5}

LargeGaps(list) ==
    {i \in 1..(Len(list) - 1) : GapCount(list[i], list[i + 1]) > 5}

\* C14: at the end of a tick, a symbol whose fetch returned data and whose
\* insert met no store fault does not hold the sentinel -1, whatever mix of
\* valid tuples, malformed tuples, small gaps and large gaps its batch had.
C14_ValidationNeverAborts ==
    pc = "done" =>
        \A i \in 1..Len(symbols) :
            (fetched[symbols[i]].kind = "data" /\ ~Faulted(symbols[i]))
                => results[symbols[i]] # -1

\* C15: convert_ohlcv_to_market_data returns normally for every fetched list
\* of raw tuples, and what it returns are the well-formed valid tuples of the
\* list, in their original order.
C15_NormalizationNeverRaises ==
    (pc = "fetched" /\ fetchRes.kind = "data") =>
        LET conv == convert_ohlcv_to_market_data(fetchRes.data, Current, primary_timeframe)
            valid == ValidTuples(fetchRes.data)
        IN /\ ~conv.raised
           /\ Len(conv.data) = Len(valid)
           /\ \A i \in 1..Len(valid) :
                /\ conv.data[i].timestamp * 1000 = valid[i].ts
                /\ conv.data[i].open = valid[i].o /\ conv.data[i].high = valid[i].h
                /\ conv.data[i].low = valid[i].l /\ conv.data[i].close = valid[i].c
                /\ conv.data[i].volume = valid[i].v

\* C16: when k tuples of the fetched batch were rejected by normalization, the
\* metrics recorded for the symbol have corrupted_records = k and a quality
\* score computed with corrupted = k.
C16_RejectedCountedAsCorrupted ==
    pc = "store" =>
        LET k == Len(fetchRes.data) - Len(ValidTuples(fetchRes.data))
            m == quality_metrics[Current]
        IN /\ m.corrupted_records = k
           /\ m.quality_score.num * 10 * Len(market_data_list)
                  = m.quality_score.den
                        * Max(0, 10 * Len(market_data_list) - 5 * k
                                     - 2 * m.interpolated_records)

\* C17: for a fetched batch of n tuples of which v pass validation, the
\* metrics recorded for the symbol have missing_records = n - v.
C17_MissingIsFetchedMinusValidated ==
    pc = "store" =>
        quality_metrics[Current].missing_records
            = Len(fetchRes.data) - Len(ValidTuples(fetchRes.data))

----------------------------------------------------------------------------
(* Gaps and the trailing candle *)

\* The candles validation places between positions i and i + 1 of its input
Between(out, list, i) ==
    SelectSeq(out, LAMBDA d : /\ d.timestamp > list[i].timestamp
                              /\ d.timestamp < list[i + 1].timestamp)

\* C18: validation synthesizes exactly gapCount candles between every adjacent
\* pair with 0 < gapCount <= 5, one on each missing interval, each flagged
\* interpolated with provenance INTERPOLATION, and none between the other
\* pairs (candles at 0h and 3h give two candles, at 1h and 2h).
C18_SmallGapInterpolated ==
    (pc = "validate" /\ market_data_list # <<>>) =>
        LET list == market_data_list
            v == ValidateDataIntegrity(list)
        IN /\ ~v.raised
           /\ \A i \in 1..(Len(list) - 1) :
                LET g == GapCount(list[i], list[i + 1])
                    b == Between(v.data, list, i)
                IN IF i \in SmallGaps(list)
                   THEN /\ Len(b) = g
                        /\ \A j \in 1..g :
                             /\ b[j].timestamp = list[i].timestamp + j * 60 * 60
                             /\ b[j].is_interpolated
                             /\ b[j].data_source = "interpolation"
                   ELSE b = <<>>

C20_TrailingCandleExcluded ==
    (pc = "validate" /\ fetchRes.kind = "data") =>
        LET raw == fetchRes.data
            last == raw[Len(raw)]
        IN /\ Len(raw) > 1 =>
                \A i \in 1..Len(market_data_list) :
                    market_data_list[i].timestamp * 1000 # last.ts
           /\ (Len(raw) = 1 /\ ValidTuples(raw) = raw) =>
                /\ Len(market_data_list) = 1
                /\ market_data_list[1].timestamp * 1000 = last.ts

----------------------------------------------------------------------------
(* Properties: storage failures, backfill, quality metrics, ordering *)

\* C21: when the insert of a symbol's batch meets a store fault, the store is
\* left as it was before the call (no candle of the batch is persisted), the
\* symbol's slot becomes -1, and the for loop goes on with the next symbol;
\* at the end of such a tick every other symbol whose own pipeline reached
\* the store without a fault has its candles stored and counted.
C21_StorageFailureIsolated ==
    /\ [][(pc = "store" /\ pc' # "store" /\ dbFault'[Current])
            => /\ store' = store
               /\ results' = Put(results, Current, -1)
               /\ idx' = idx + 1
               /\ pc' = IF idx < Len(symbols) THEN "call" ELSE "done"
         ]_vars
    /\ [](pc = "done" =>
            \A i \in 1..Len(symbols) :
                LET s == symbols[i]
                IN (s \in DOMAIN dbFault /\ ~dbFault[s]) =>
                      /\ results[s] > 0
                      /\ Cardinality({r \in store : r.symbol = s}) = results[s])

\* The insert for B met a store fault between the inserts for A and C: B has
\* slot -1 and no row, A and C are stored
C21_Witness ==
    /\ pc = "done"
    /\ symbols = <<"A", "B", "C">>
    /\ Faulted("B")
    /\ results["B"] = -1
    /\ {r \in store : r.symbol = "B"} = {}
    /\ results["A"] > 0 /\ {r \in store : r.symbol = "A"} # {}
    /\ results["C"] > 0 /\ {r \in store : r.symbol = "C"} # {}

\* C22: when fetch_historical_data has returned, every candle it returned
\* (the output of the validate step of the backfill) has a row in the store.
C22_BackfillPersisted ==
    (pc = "idle" /\ args.fn = "fetch_historical_data" /\ ret.kind = "return") =>
        \A i \in 1..Len(ret.data) : RowsOfKey(store, ret.data[i]) # {}

\* The arguments' score 1 - 0.5 c/t - 0.2 i/t, cut to [0, 1], times 10 t
Clamped(t, c, i) ==
    LET x == 10 * t - 5 * c - 2 * i
    IN IF x < 0 THEN 0 ELSE IF x > 10 * t THEN 10 * t ELSE x

\* C23: _calculate_quality_score(total, corrupted, interpolated) is 0 when
\* total = 0, otherwise 1 - 0.5 corrupted/total - 0.2 interpolated/total cut
\* to [0, 1]; the result always lies in [0, 1]; (100, 5, 10) gives 0.955.
C23_QualityScore ==
    (pc = "applied" /\ args.fn = "_calculate_quality_score") =>
        LET q == ret.value
            t == args.total
        IN /\ q.den > 0 /\ 0 <= q.num /\ q.num <= q.den
           /\ t = 0 => q.num = 0
           /\ t > 0 => q.num * 10 * t = Clamped(t, args.corrupted, args.interpolated) * q.den
           /\ (t = 100 /\ args.corrupted = 5 /\ args.interpolated = 10)
                 => 1000 * q.num = 955 * q.den

\* The score of 100 records with 5 corrupted and 10 interpolated has been computed
C23_Witness ==
    /\ pc = "applied"
    /\ args = [fn |-> "_calculate_quality_score", total |-> 100, corrupted |-> 5,
               interpolated |-> 10]
    /\ 1000 * ret.value.num = 955 * ret.value.den

\* C24: is_healthy is true exactly when quality_score >= 0.95 and
\* missing_ratio <= 0.05, where missing_ratio is missing_records /
\* total_records for a batch with records; for a batch without records both
\* are defined, and a batch without records and with score 0 is not healthy.
C24_Healthy ==
    (pc = "applied" /\ args.fn = "is_healthy") =>
        LET m == args.metrics
            r == ret.missing_ratio
        IN /\ r.den > 0
           /\ m.total_records > 0 => r.num * m.total_records = m.missing_records * r.den
           /\ ret.value \in BOOLEAN
           /\ ret.value <=> (/\ 100 * m.quality_score.num >= 95 * m.quality_score.den
                             /\ 100 * r.num <= 5 * r.den)
           /\ (m.total_records = 0 /\ m.quality_score.num = 0) => ~ret.value

\* A batch of 20 records with one missing and score 0.95 has been found healthy
C24_Witness ==
    /\ pc = "applied"
    /\ args.fn = "is_healthy"
    /\ args.metrics.total_records = 20
    /\ args.metrics.missing_records = 1
    /\ args.metrics.quality_score = [num |-> 95, den |-> 100]
    /\ ret.value

\* C25: within a tick the steps of a symbol run in the order fetch,
\* normalize, validate (interpolation and score), store: the store step is
\* entered only from a validation that ended normally on the non-empty
\* candle list of a fetch that returned data, with that validation's output
\* as its argument and its metrics recorded in the symbol's slot; a symbol
\* whose fetch or validation failed, or whose list was empty, never reaches
\* the store in that tick.
C25_StepOrder ==
    /\ [](pc = "store" =>
            LET v == ValidateDataIntegrity(market_data_list)
            IN /\ fetchRes.kind = "data"
               /\ Current \in DOMAIN fetched /\ fetched[Current] = fetchRes
               /\ market_data_list # <<>>
               /\ market_data_list = fetch_realtime_data(fetchRes, Current)
               /\ ~v.raised
               /\ validated_data = v.data
               /\ Current \in DOMAIN quality_metrics
               /\ quality_metrics[Current] = v.metrics)
    /\ [](\A s \in DOMAIN dbFault :
            /\ s \in DOMAIN fetched /\ fetched[s].kind = "data"
            /\ fetch_realtime_data(fetched[s], s) # <<>>
            /\ ~ValidateDataIntegrity(fetch_realtime_data(fetched[s], s)).raised)
    /\ [][/\ (pc' = "store" /\ pc # "store") => pc = "validate"
          /\ (pc' = "validate" /\ pc # "validate") => pc = "fetched"
          /\ (pc' = "fetched" /\ pc # "fetched") => pc \in {"call", "sleep"}
         ]_vars

\* A tick over A, B, C has ended: the fetch of A failed and the validation of
\* B raised, so neither reached the store; C was fetched, validated and stored
C25_Witness ==
    /\ pc = "done"
    /\ symbols = <<"A", "B", "C">>
    /\ fetched["A"].kind = "raise"
    /\ fetched["B"].kind = "data" /\ results["B"] = -1
    /\ DOMAIN dbFault = {"C"}
    /\ results["C"] > 0
    /\ "C" \in DOMAIN quality_metrics

\* A candle as the pipeline builds it: one that passed __post_init__, with
\* the source of convert_ohlcv_to_market_data or of _interpolate_data
PipelineCandle(d) ==
    /\ PostInitOk(d)
    /\ \/ d.data_source = "api" /\ ~d.is_interpolated
       \/ d.data_source = "interpolation" /\ d.is_interpolated

\* C26: a batch of candles as the pipeline builds them, interpolated ones
\* included, is accepted by the table: unless the store itself fails, the
\* insert returns and every candle of the batch has its row.
C26_TableAcceptsPipelineCandles ==
    [][(/\ InsertReturns
        /\ ~insertRes'.faulted
        /\ \A i \in 1..Len(validated_data) : PipelineCandle(validated_data[i]))
           => /\ insertRes'.kind = "return"
              /\ \A i \in 1..Len(validated_data) :
                    RowsOfKey(store', validated_data[i]) # {}
      ]_vars

\* The expected interval of the call's timeframe, in seconds
Interval == 60 * TimeframeMinutes(args.start_data.timeframe)
Delta == args.end_data.timestamp - args.start_data.timestamp

\* C27 (as the code has it): _interpolate_data called for a pair with
\* 0 < gap_count <= 5 returns gap_count candles, the i-th at prev.timestamp
\* + i * (next.timestamp - prev.timestamp) / (gap_count + 1); these are the
\* grid points prev.timestamp + i * expectedInterval exactly when the pair
\* is (gap_count + 1) expected intervals apart.
C27_InterpolatedTimestamps ==
    (pc = "applied" /\ args.fn = "_interpolate_data") =>
        /\ ret.kind = "return"
        /\ Len(ret.value) = args.gap_count
        /\ \A i \in 1..Len(ret.value) :
              /\ (ret.value[i].timestamp - args.start_data.timestamp) * (args.gap_count + 1)
                    = i * Delta
              /\ (ret.value[i].timestamp = args.start_data.timestamp + i * Interval)
                    <=> (Delta = (args.gap_count + 1) * Interval)

\* A pair two and a half hours apart got one candle, 75 minutes after the first
C27_Witness ==
    /\ pc = "applied"
    /\ args.fn = "_interpolate_data"
    /\ Delta = 150 * 60
    /\ args.gap_count = 1
    /\ ret.kind = "return"
    /\ ret.value[1].timestamp = args.start_data.timestamp + 75 * 60

\* C27 as stated: the i-th candle is at prev.timestamp + i * expectedInterval
\* whatever the distance of the pair.
C27_GridAligned ==
    (pc = "applied" /\ args.fn = "_interpolate_data" /\ ret.kind = "return") =>
        \A i \in 1..Len(ret.value) :
            ret.value[i].timestamp = args.start_data.timestamp + i * Interval

\* C28: in a call of fetch_ohlcv_with_retry every backoff sleep is followed
\* by another exchange call: when asyncio.sleep returns the loop makes its
\* next call, and a call that has ended slept fewer times than it called
\* the exchange.
C28_SleepOnlyBeforeRetry ==
    /\ [][pc = "sleep" => pc' \in {"sleep", "call"}]_vars
    /\ [](pc = "fetched" => Len(sleeps) < calls)

\* Number of positions of seq that hold d
Occurrences(seq, d) == Cardinality({i \in 1..Len(seq) : seq[i] = d})

C30_SlotOwnership ==
    /\ [](\A s \in DOMAIN quality_metrics : quality_metrics[s].symbol = s)
    /\ [][(pc \in {"fetched", "validate", "store"})
            => (LET s == IF args.fn = "fetch_historical_data" THEN args.symbol ELSE Current
                IN /\ \A k \in (DOMAIN quality_metrics') \ {s} :
                         k \in DOMAIN quality_metrics /\ quality_metrics'[k] = quality_metrics[k]
                   /\ \A k \in (DOMAIN results') \ {s} :
                         k \in DOMAIN results /\ results'[k] = results[k])
         ]_vars

====
